---- MODULE Spec2Model ----
(***************************************************************************)
(* Model of package forklift (loader.go): the three retrieval operations   *)
(* LoadPackage, LoadTestPackage and LoadExternalTestPackage, the selection *)
(* loop of each over the list returned by packages.Load, and handle, which *)
(* turns the selected record's diagnostics into the returned error.        *)
(*                                                                         *)
(* packages.Load is an external collaborator.  Its answer for the path of  *)
(* a behaviour (a list of records, or an error) is chosen in Init from     *)
(* bounded sets and every operation is applied to it.                      *)
(*                                                                         *)
(* A *packages.Package is modelled by its index in the returned list       *)
(* (0 is the nil pointer), so that "the same record" is pointer identity.  *)
(***************************************************************************)
EXTENDS Integers, Sequences, FiniteSets, TLC

VARIABLES ps, loadErr, ret

vars == <<ps, loadErr, ret>>

---------------------------------------------------------------------------
(* Bounds of the model *)

\* longest list packages.Load answers with under Spec
MaxPkgs == 3

\* most diagnostics on one record under SpecHandle
MaxErrs == 2

---------------------------------------------------------------------------
(* Strings *)

\* strings.HasSuffix
HasSuffix(s, suffix) ==
    /\ Len(s) >= Len(suffix)
    /\ SubSeq(s, Len(s) - Len(suffix) + 1, Len(s)) = suffix

SeqsUpTo(S, n) == UNION {[1..k -> S] : k \in 0..n}

\* sequences over S without repetition
DistinctSeqs(S) ==
    {s \in SeqsUpTo(S, Cardinality(S)) : \A i, j \in 1..Len(s) : s[i] = s[j] => i = j}

---------------------------------------------------------------------------
(* Error values.  ptr is the identity of the value: "nil" for the nil      *)
(* error, "ErrNotFound" for the package-level variable, "new" for a value  *)
(* allocated during a call.  msg is the result of Error(); unwrap is the   *)
(* result of Unwrap() []error (empty when the type has no such method).    *)

NilErr == [ptr |-> "nil", msg |-> "", unwrap |-> <<>>]

\* var ErrNotFound = fmt.Errorf("package not found")
ErrNotFound == [ptr |-> "ErrNotFound", msg |-> "package not found", unwrap |-> <<>>]

\* errors.New
New(msg) == [ptr |-> "new", msg |-> msg, unwrap |-> <<>>]

\* (*joinError).Error: the messages separated by newlines
RECURSIVE JoinText(_, _)
JoinText(errs, i) ==
    IF i > Len(errs) THEN ""
    ELSE IF i = 1 THEN errs[1].msg \o JoinText(errs, 2)
    ELSE "\n" \o errs[i].msg \o JoinText(errs, i + 1)

\* errors.Join: nil values are dropped; nil when nothing is left
Join(errs) ==
    LET kept == SelectSeq(errs, LAMBDA e : e # NilErr)
    IN  IF Len(kept) = 0 THEN NilErr
        ELSE [ptr |-> "new", msg |-> JoinText(kept, 1), unwrap |-> kept]

\* errors.Is(err, target) for a target compared by identity
Is(err, target) ==
    \/ (err.ptr # "new" /\ err = target)
    \/ \E i \in 1..Len(err.unwrap) :
          err.unwrap[i].ptr # "new" /\ err.unwrap[i] = target

\* variant: a failed load reported as "not found"
loadErrorAsNotFound(err) == ErrNotFound

\* loadError: fmt.Errorf with %v formats the text and keeps no link to err
loadError(err) == New("cannot load package: " \o err.msg)

---------------------------------------------------------------------------
(* Records and diagnostics returned by packages.Load *)

\* packages.ErrorKind
ErrorKinds == {"UnknownError", "ListError", "ParseError", "TypeError"}

\* Error.Pos: empty, "-" (no position), or file:line:col
Positions == {"", "-", "time.go:3:1"}

\* Error.Msg; one message has the very text of ErrNotFound
Messages == {"package not found", "undefined: x"}

\* packages.Error.  handle reads Pos and Msg of parse and type errors only, so
\* these vary there and are fixed for the other kinds.
Diags ==
    [Kind : {"ParseError", "TypeError"}, Pos : Positions, Msg : Messages]
    \cup [Kind : ErrorKinds \ {"ParseError", "TypeError"},
          Pos : {"-"}, Msg : {"package not found"}]

\* Package.Name
Names == {"time", "time_test", "test"}

\* Package.GoFiles entries
FileNames == {"time.go", "time_test.go"}

\* the nil *packages.Package
NilPkg == 0

---------------------------------------------------------------------------
(* handle *)

\* variant: only the empty position is left out, "-" is printed
entryDashPrinted(err) ==
    LET prefix == IF err.Pos # "" THEN err.Pos \o ": " ELSE ""
    IN  prefix \o err.Msg

\* prefix+err.Msg of the ParseError/TypeError case
entry(err) ==
    LET prefix == IF err.Pos # "" /\ err.Pos # "-" THEN err.Pos \o ": " ELSE ""
    IN  prefix \o err.Msg

\* what a call gives back: the handle, the error, and the panic value if the
\* call panicked instead of returning
Return(p, err) == [p |-> p, err |-> err, panic |-> "none"]
Panic(v) == [p |-> NilPkg, err |-> NilErr, panic |-> v]

\* variant: a listing error is collected like a parse or type error
RECURSIVE handleLoopListCollected(_, _, _, _)
handleLoopListCollected(p, Errors, i, errs) ==
    IF i > Len(Errors)
    THEN IF Len(errs) > 0 THEN Return(NilPkg, Join(errs)) ELSE Return(p, NilErr)
    ELSE CASE Errors[i].Kind \in {"ListError", "ParseError", "TypeError"} ->
                  handleLoopListCollected(p, Errors, i + 1,
                                          Append(errs, New(entry(Errors[i]))))
           [] OTHER -> Panic(Errors[i].Kind)

\* variant: a diagnostic of another kind is passed over
RECURSIVE handleLoopUnknownSkipped(_, _, _, _)
handleLoopUnknownSkipped(p, Errors, i, errs) ==
    IF i > Len(Errors)
    THEN IF Len(errs) > 0 THEN Return(NilPkg, Join(errs)) ELSE Return(p, NilErr)
    ELSE CASE Errors[i].Kind = "ListError" -> Return(NilPkg, ErrNotFound)
           [] Errors[i].Kind \in {"ParseError", "TypeError"} ->
                  handleLoopUnknownSkipped(p, Errors, i + 1,
                                           Append(errs, New(entry(Errors[i]))))
           [] OTHER -> handleLoopUnknownSkipped(p, Errors, i + 1, errs)

\* the range loop over p.Errors from index i on, errs collected so far
RECURSIVE handleLoop(_, _, _, _)
handleLoop(p, Errors, i, errs) ==
    IF i > Len(Errors)
    THEN IF Len(errs) > 0 THEN Return(NilPkg, Join(errs)) ELSE Return(p, NilErr)
    ELSE CASE Errors[i].Kind = "ListError" -> Return(NilPkg, ErrNotFound)
           [] Errors[i].Kind \in {"ParseError", "TypeError"} ->
                  handleLoop(p, Errors, i + 1, Append(errs, New(entry(Errors[i]))))
           [] OTHER -> Panic(Errors[i].Kind)

\* variant: no record selected is no error
handleNilOk(list, p) ==
    IF p = NilPkg THEN Return(NilPkg, NilErr)
    ELSE handleLoop(p, list[p].Errors, 1, <<>>)

\* variant: the diagnostics read are those of the first record of the list
handleFirstRecord(list, p) ==
    IF p = NilPkg THEN Return(NilPkg, ErrNotFound)
    ELSE handleLoop(p, list[1].Errors, 1, <<>>)

\* handle(p), p an index into list
handle(list, p) ==
    IF p = NilPkg THEN Return(NilPkg, ErrNotFound)
    ELSE handleLoop(p, list[p].Errors, 1, <<>>)

---------------------------------------------------------------------------
(* The selection loops *)

\* inner loop over p.GoFiles from index j on: TRUE when a file ends in _test.go
RECURSIVE hasTestFile(_, _)
hasTestFile(GoFiles, j) ==
    IF j > Len(GoFiles) THEN FALSE
    ELSE IF HasSuffix(GoFiles[j], "_test.go") THEN TRUE
    ELSE hasTestFile(GoFiles, j + 1)

\* variant: the files are not looked at
RECURSIVE matchPackageNoFileCheck(_, _)
matchPackageNoFileCheck(list, i) ==
    IF i > Len(list) THEN NilPkg
    ELSE IF HasSuffix(list[i].Name, "_test") THEN matchPackageNoFileCheck(list, i + 1)
    ELSE i

\* variant: the name is not looked at
RECURSIVE matchPackageNoNameCheck(_, _)
matchPackageNoNameCheck(list, i) ==
    IF i > Len(list) THEN NilPkg
    ELSE IF hasTestFile(list[i].GoFiles, 1) THEN matchPackageNoNameCheck(list, i + 1)
    ELSE i

\* loop of LoadPackage from index i on
RECURSIVE matchPackage(_, _)
matchPackage(list, i) ==
    IF i > Len(list) THEN NilPkg
    ELSE IF HasSuffix(list[i].Name, "_test") THEN matchPackage(list, i + 1)
    ELSE IF hasTestFile(list[i].GoFiles, 1) THEN matchPackage(list, i + 1)
    ELSE i

\* variant: the name is not looked at
RECURSIVE matchTestPackageAnyName(_, _)
matchTestPackageAnyName(list, i) ==
    IF i > Len(list) THEN NilPkg
    ELSE IF hasTestFile(list[i].GoFiles, 1) THEN i
    ELSE matchTestPackageAnyName(list, i + 1)

\* loop of LoadTestPackage from index i on
RECURSIVE matchTestPackage(_, _)
matchTestPackage(list, i) ==
    IF i > Len(list) THEN NilPkg
    ELSE IF HasSuffix(list[i].Name, "_test") THEN matchTestPackage(list, i + 1)
    ELSE IF hasTestFile(list[i].GoFiles, 1) THEN i
    ELSE matchTestPackage(list, i + 1)

\* variant: the loop does not break, the last match wins
RECURSIVE matchExternalTestPackageNoBreak(_, _)
matchExternalTestPackageNoBreak(list, i) ==
    IF i > Len(list) THEN NilPkg
    ELSE LET later == matchExternalTestPackageNoBreak(list, i + 1)
         IN  IF later # NilPkg THEN later
             ELSE IF HasSuffix(list[i].Name, "_test") THEN i
             ELSE NilPkg

\* loop of LoadExternalTestPackage from index i on
RECURSIVE matchExternalTestPackage(_, _)
matchExternalTestPackage(list, i) ==
    IF i > Len(list) THEN NilPkg
    ELSE IF HasSuffix(list[i].Name, "_test") THEN i
    ELSE matchExternalTestPackage(list, i + 1)

---------------------------------------------------------------------------
(* The operations.  A call's record: called, the Tests flag of the Config  *)
(* given to packages.Load, the record the loop selected (match), and what  *)
(* the call gave back.                                                     *)

Ops == {"LoadPackage", "LoadTestPackage", "LoadExternalTestPackage"}

NoCall ==
    [called |-> FALSE, tests |-> FALSE, match |-> NilPkg,
     p |-> NilPkg, err |-> NilErr, panic |-> "none"]

Call(tests, match, r) ==
    [called |-> TRUE, tests |-> tests, match |-> match,
     p |-> r.p, err |-> r.err, panic |-> r.panic]

LoaderLoadPackage(list, err) ==
    IF err # NilErr THEN Call(FALSE, NilPkg, Return(NilPkg, loadError(err)))
    ELSE LET match == matchPackage(list, 1)
         IN  Call(FALSE, match, handle(list, match))

LoaderLoadTestPackage(list, err) ==
    IF err # NilErr THEN Call(TRUE, NilPkg, Return(NilPkg, loadError(err)))
    ELSE LET match == matchTestPackage(list, 1)
         IN  Call(TRUE, match, handle(list, match))

LoaderLoadExternalTestPackage(list, err) ==
    IF err # NilErr THEN Call(TRUE, NilPkg, Return(NilPkg, loadError(err)))
    ELSE LET match == matchExternalTestPackage(list, 1)
         IN  Call(TRUE, match, handle(list, match))

LoadPackage ==
    /\ ret' = [ret EXCEPT !["LoadPackage"] = LoaderLoadPackage(ps, loadErr)]
    /\ UNCHANGED <<ps, loadErr>>

LoadTestPackage ==
    /\ ret' = [ret EXCEPT !["LoadTestPackage"] = LoaderLoadTestPackage(ps, loadErr)]
    /\ UNCHANGED <<ps, loadErr>>

LoadExternalTestPackage ==
    /\ ret' = [ret EXCEPT !["LoadExternalTestPackage"] =
                              LoaderLoadExternalTestPackage(ps, loadErr)]
    /\ UNCHANGED <<ps, loadErr>>

Next == LoadPackage \/ LoadTestPackage \/ LoadExternalTestPackage

---------------------------------------------------------------------------
(* Answers of packages.Load *)

\* errors of a failed load (the driver's text)
LoadErrs == {New("exit status 1"), New("package not found")}

\* Spec: every name and file list, up to MaxPkgs records, no diagnostics
Pkgs == [Name : Names, GoFiles : DistinctSeqs(FileNames), Errors : {<<>>}]

\* a failed load answers with no list in practice; lists of one record are
\* allowed here too, so that a call which looked at them would show
Init ==
    /\ \/ \E k \in 0..MaxPkgs : ps \in [1..k -> Pkgs] /\ loadErr = NilErr
       \/ \E k \in 0..1 : ps \in [1..k -> Pkgs] /\ loadErr \in LoadErrs
    /\ ret = [op \in Ops |-> NoCall]

Spec == Init /\ [][Next]_vars

\* SpecHandle: the three records "go list -test" gives for a package with
\* both kinds of test files, one of them with up to MaxErrs diagnostics,
\* alone or next to a record whose diagnostic would panic if it were read
Shapes ==
    {[Name |-> "time", GoFiles |-> <<"time.go">>],
     [Name |-> "time", GoFiles |-> <<"time.go", "time_test.go">>],
     [Name |-> "time_test", GoFiles |-> <<"time_test.go">>]}

WithErrors(shape, Errors) ==
    [Name |-> shape.Name, GoFiles |-> shape.GoFiles, Errors |-> Errors]

HandlePkgs ==
    UNION {{WithErrors(sh, E) : sh \in Shapes, E \in [1..k -> Diags]} : k \in 0..MaxErrs}

Decoys ==
    {WithErrors(sh, <<[Kind |-> "UnknownError", Pos |-> "-",
                       Msg |-> "package not found"]>>) : sh \in Shapes}

InitHandle ==
    /\ \/ \E r \in HandlePkgs :
             /\ \/ ps = <<r>>
                \/ \E q \in Decoys : ps = <<q, r>> \/ ps = <<r, q>>
             /\ loadErr = NilErr
       \/ \E sh \in Shapes : ps = <<WithErrors(sh, <<>>)>> /\ loadErr \in LoadErrs
    /\ ret = [op \in Ops |-> NoCall]

SpecHandle == InitHandle /\ [][Next]_vars

---------------------------------------------------------------------------
(* The classification in the words of the specification *)

IsNormal(r) ==
    /\ ~HasSuffix(r.Name, "_test")
    /\ \A j \in 1..Len(r.GoFiles) : ~HasSuffix(r.GoFiles[j], "_test.go")

IsTest(r) ==
    /\ ~HasSuffix(r.Name, "_test")
    /\ \E j \in 1..Len(r.GoFiles) : HasSuffix(r.GoFiles[j], "_test.go")

IsExternalTest(r) == HasSuffix(r.Name, "_test")

Class(op, r) ==
    CASE op = "LoadPackage" -> IsNormal(r)
      [] op = "LoadTestPackage" -> IsTest(r)
      [] op = "LoadExternalTestPackage" -> IsExternalTest(r)

\* index of the first record of ps in the class of op, NilPkg when there is none
FirstOf(op) ==
    IF \E i \in 1..Len(ps) : Class(op, ps[i])
    THEN CHOOSE i \in 1..Len(ps) :
             Class(op, ps[i]) /\ \A j \in 1..(i - 1) : ~Class(op, ps[j])
    ELSE NilPkg

\* the diagnostics of the record op is to select
MatchedErrors(op) == ps[FirstOf(op)].Errors

Succeeded(op) == ret[op].called /\ loadErr = NilErr

KnownKinds == {"ListError", "ParseError", "TypeError"}

---------------------------------------------------------------------------
(* Selection *)

\* C1: after a successful load LoadPackage selects the first record of the
\* list whose name does not end in "_test" and none of whose files ends in
\* "_test.go" (a record without files qualifies), and no record when the
\* list has none.
C1_LoadPackageSelectsFirstNormal ==
    Succeeded("LoadPackage") =>
        LET m == ret["LoadPackage"].match
        IN  /\ m = FirstOf("LoadPackage")
            /\ m # NilPkg => IsNormal(ps[m]) /\ \A j \in 1..(m - 1) : ~IsNormal(ps[j])

C1_Witness ==
    /\ Succeeded("LoadPackage")
    /\ Len(ps) = 3
    /\ IsNormal(ps[1]) = FALSE
    /\ ps[2].GoFiles = <<>> /\ ps[2].Name = "test"
    /\ IsNormal(ps[3])
    /\ ret["LoadPackage"].match = 2

\* C2: after a successful load LoadTestPackage selects the first record whose
\* name does not end in "_test" and one of whose files ends in "_test.go";
\* a handle it returns has such a file, and a list in which no record has a
\* test file gives "not found".
C2_LoadTestPackageSelectsFirstTest ==
    Succeeded("LoadTestPackage") =>
        LET r == ret["LoadTestPackage"]
        IN  /\ r.match = FirstOf("LoadTestPackage")
            /\ r.p # NilPkg =>
                   \E j \in 1..Len(ps[r.p].GoFiles) :
                       HasSuffix(ps[r.p].GoFiles[j], "_test.go")
            /\ (\A i \in 1..Len(ps) : \A j \in 1..Len(ps[i].GoFiles) :
                    ~HasSuffix(ps[i].GoFiles[j], "_test.go"))
                   => r.p = NilPkg /\ r.err = ErrNotFound /\ r.panic = "none"

C2_Witness ==
    /\ Succeeded("LoadTestPackage")
    /\ Len(ps) = 3
    /\ IsExternalTest(ps[1]) /\ ps[1].GoFiles = <<"time_test.go">>
    /\ IsNormal(ps[2])
    /\ ps[3].GoFiles = <<"time.go", "time_test.go">>
    /\ ret["LoadTestPackage"].match = 3
    /\ ret["LoadTestPackage"].p = 3

---------------------------------------------------------------------------
(* Diagnostics of the selected record *)

EntryText(d) ==
    IF d.Pos \notin {"", "-"} THEN d.Pos \o ": " \o d.Msg ELSE d.Msg

\* C6: when the matched record has at least one diagnostic and all are parse
\* or type errors, the call returns the nil handle and one aggregate error
\* that is not ErrNotFound and holds one entry per diagnostic, in order: the
\* message, prefixed by "<position>: " unless the position is "" or "-".
C6_ParseTypeErrorsAggregated ==
    \A op \in Ops :
        LET E == MatchedErrors(op)
        IN  (/\ Succeeded(op)
             /\ FirstOf(op) # NilPkg
             /\ Len(E) >= 1
             /\ \A i \in 1..Len(E) : E[i].Kind \in {"ParseError", "TypeError"})
        => /\ ret[op].p = NilPkg
           /\ ret[op].panic = "none"
           /\ ret[op].err # NilErr
           /\ ret[op].err # ErrNotFound
           /\ ~Is(ret[op].err, ErrNotFound)
           /\ Len(ret[op].err.unwrap) = Len(E)
           /\ \A i \in 1..Len(E) : ret[op].err.unwrap[i].msg = EntryText(E[i])

C6_Witness ==
    \E op \in Ops :
        /\ Succeeded(op)
        /\ FirstOf(op) # NilPkg
        /\ Len(MatchedErrors(op)) = 2
        /\ MatchedErrors(op)[1] =
               [Kind |-> "TypeError", Pos |-> "time.go:3:1", Msg |-> "undefined: x"]
        /\ MatchedErrors(op)[2] =
               [Kind |-> "ParseError", Pos |-> "-", Msg |-> "package not found"]
        /\ ret[op].err.msg = "time.go:3:1: undefined: x\npackage not found"

\* C7: for each operation, when packages.Load itself fails the call returns
\* the nil handle and a "cannot load package" error carrying the text of the
\* load error, selects no record, and the error is not ErrNotFound.
C7_LoadFailureIsWrapped ==
    \A op \in Ops :
        (ret[op].called /\ loadErr # NilErr) =>
            /\ ret[op].p = NilPkg
            /\ ret[op].match = NilPkg
            /\ ret[op].panic = "none"
            /\ ret[op].err.msg = "cannot load package: " \o loadErr.msg
            /\ ret[op].err # ErrNotFound
            /\ ~Is(ret[op].err, ErrNotFound)

C7_Witness ==
    /\ loadErr = New("package not found")
    /\ Len(ps) = 1 /\ IsNormal(ps[1])
    /\ \A op \in Ops : ret[op].called
    /\ ret["LoadPackage"].err.msg = "cannot load package: package not found"

\* C8 as stated: whenever the matched record carries a diagnostic whose kind
\* is none of listing, parse or type error, the call panics, whatever the
\* other diagnostics and their order.
C8_UnknownKindAlwaysPanics ==
    \A op \in Ops :
        LET E == MatchedErrors(op)
        IN  (/\ Succeeded(op)
             /\ FirstOf(op) # NilPkg
             /\ \E i \in 1..Len(E) : E[i].Kind \notin KnownKinds)
        => ret[op].panic # "none"

\* C8 amended: when the matched record carries a diagnostic whose kind is
\* none of listing, parse or type error and no listing error comes before it
\* in the list, the call panics with that kind and returns neither handle
\* nor error, whatever parse and type errors the record carries; when a
\* listing error comes before the first such diagnostic the call returns
\* ErrNotFound.
C8_UnknownKindPanicsUnlessListErrorFirst ==
    \A op \in Ops :
        LET E == MatchedErrors(op)
        IN  (Succeeded(op) /\ FirstOf(op) # NilPkg) =>
            \A i \in 1..Len(E) :
                (E[i].Kind \notin KnownKinds /\ \A j \in 1..(i - 1) : E[j].Kind \in KnownKinds)
                => IF \E j \in 1..(i - 1) : E[j].Kind = "ListError"
                   THEN /\ ret[op].panic = "none"
                        /\ ret[op].p = NilPkg
                        /\ ret[op].err = ErrNotFound
                   ELSE /\ ret[op].panic = E[i].Kind
                        /\ ret[op].p = NilPkg
                        /\ ret[op].err = NilErr

C8_Witness ==
    \E op \in Ops :
        /\ Succeeded(op)
        /\ FirstOf(op) # NilPkg
        /\ Len(MatchedErrors(op)) = 2
        /\ MatchedErrors(op)[1].Kind = "TypeError"
        /\ MatchedErrors(op)[2].Kind = "UnknownError"
        /\ ret[op].panic = "UnknownError"

---------------------------------------------------------------------------
(* The outcome as a whole *)

Loader(op, list, err) ==
    CASE op = "LoadPackage" -> LoaderLoadPackage(list, err)
      [] op = "LoadTestPackage" -> LoaderLoadTestPackage(list, err)
      [] op = "LoadExternalTestPackage" -> LoaderLoadExternalTestPackage(list, err)

\* ps with the diagnostics of every record but record m removed
OthersCleared(m) ==
    [i \in 1..Len(ps) |-> IF i = m THEN ps[i] ELSE [ps[i] EXCEPT !.Errors = <<>>]]

---------------------------------------------------------------------------
(* The three classes *)

\* the record the loop of op selects in list
Match(op, list) ==
    CASE op = "LoadPackage" -> matchPackage(list, 1)
      [] op = "LoadTestPackage" -> matchTestPackage(list, 1)
      [] op = "LoadExternalTestPackage" -> matchExternalTestPackage(list, 1)

\* whether the loop of each operation accepts record r
Accepts(r) == [op \in Ops |-> Match(op, <<r>>) # NilPkg]

\* C10: once the three operations were applied to the same list: every
\* record of the list is accepted by the loop of exactly one operation, the
\* one whose class (normal, test, external test) it is in, and no two
\* operations selected the same record.
C10_ClassesPartitionRecords ==
    (\A op \in Ops : Succeeded(op)) =>
        /\ \A i \in 1..Len(ps) :
               LET acc == Accepts(ps[i])
               IN  /\ \E op \in Ops : acc[op] /\ \A other \in Ops \ {op} : ~acc[other]
                   /\ \A op \in Ops : acc[op] <=> Class(op, ps[i])
        /\ \A op1, op2 \in Ops :
               (op1 # op2 /\ ret[op1].match # NilPkg) => ret[op1].match # ret[op2].match

C10_Witness ==
    /\ \A op \in Ops : Succeeded(op) /\ ret[op].match # NilPkg
    /\ ret["LoadExternalTestPackage"].match = 1
    /\ ps[1].GoFiles = <<"time_test.go", "time.go">>
    /\ ret["LoadTestPackage"].match = 2
    /\ ret["LoadPackage"].match = 3

====
